---- MODULE Spec2Model ----
(***************************************************************************)
(* Model of src/app.py: the Streamlit script that compares the SKV         *)
(* standards sheet with a tender topsheet.  One script run is modelled as  *)
(* a sequence of steps (gate, extract, encode, matching loop, frame,       *)
(* residual loop, render, export).  Row labels are the 0-based pandas      *)
(* index labels, positions are 0-based as in the code; TLA+ sequences are  *)
(* 1-based, so a 0-based position p is read at p + 1.                      *)
(* Similarity scores are in hundredths (85 stands for 0.85).               *)
(***************************************************************************)
EXTENDS Integers, Sequences, FiniteSets, TLC

VARIABLES skv_file, tender_file, pc, fault,
          skv_clauses, tender_brief, skv_embeddings, tender_embeddings,
          cosine_scores, results, matched_tender_indices,
          comparison_df, fill_colors, extra_rows,
          screen_comparison, screen_extra, report

vars == <<skv_file, tender_file, pc, fault,
          skv_clauses, tender_brief, skv_embeddings, tender_embeddings,
          cosine_scores, results, matched_tender_indices,
          comparison_df, fill_colors, extra_rows,
          screen_comparison, screen_extra, report>>

(* ---------------- bounds of the model ---------------- *)
MaxStdRows == 3
MaxTenderRows == 3

(* ---------------- program constants ---------------- *)
MatchThreshold == 85
ClarifyThreshold == 60

Green == "C6EFCE"
Yellow == "FFF2CC"
Red == "F4CCCC"
ScreenYellow == "fff3cd"

Match == "Match"
NeedsClarification == "Needs Clarification"
Conflict == "Conflict or Not Found"

(* Scores a similarity row is drawn from: both thresholds and one value    *)
(* above the upper one.  AllScores is the whole cosine range.              *)
Scores == {ClarifyThreshold, MatchThreshold, MatchThreshold + 1}
AllScores == (0 - 100) .. 100

(* A raw sheet: one BOOLEAN per data row, TRUE when both fields of the row *)
(* are non-empty (the row survives dropna).                                *)
Tables(n) == UNION {[1..k -> BOOLEAN] : k \in 0..n}

NoFile == [present |-> FALSE, rows |-> <<>>]
File(t) == [present |-> TRUE, rows |-> t]

(* ---------------- pure helpers ---------------- *)

(* labels first..last-1 of a frame with n rows, in order *)
Labels(from, n) == [k \in 1..(IF n > from THEN n - from ELSE 0) |-> from + k - 1]

(* DataFrame.dropna(): keeps the surviving rows with their original labels *)
Dropna(rows, labels) == SelectSeq(labels, LAMBDA l : rows[l + 1])

(* skv_df[['Clauses', 'SKV Standard']].dropna() *)
ExtractSkv(rows) == Dropna(rows, Labels(0, Len(rows)))

(* tender_df.iloc[1:, [1, 2]].dropna(): the first data row is skipped *)
ExtractTender(rows) == Dropna(rows, Labels(1, Len(rows)))

(* model.encode(list): one vector per text, in list order; a vector is     *)
(* identified by the row whose text it encodes                             *)
Encode(texts) == [k \in 1..Len(texts) |-> [text |-> texts[k]]]

RECURSIVE ArgMaxScanLast(_, _, _)
ArgMaxScanLast(row, j, best) ==
    IF j > Len(row) THEN best
    ELSE ArgMaxScanLast(row, j + 1, IF row[j] >= row[best] THEN j ELSE best)

(* np.argmax: left-to-right scan, the first maximum wins (1-based here) *)
RECURSIVE ArgMaxScan(_, _, _)
ArgMaxScan(row, j, best) ==
    IF j > Len(row) THEN best
    ELSE ArgMaxScan(row, j + 1, IF row[j] > row[best] THEN j ELSE best)

ArgMaxLast(row) == ArgMaxScanLast(row, 1, 1) - 1

(* int(np.argmax(cosine_scores)): 0-based position *)
ArgMax(row) == ArgMaxScan(row, 1, 1) - 1

InferenceInclusive(score) ==
    IF score >= MatchThreshold
    THEN [inference |-> Match, fill_color |-> Green]
    ELSE IF ClarifyThreshold < score /\ score <= MatchThreshold
    THEN [inference |-> NeedsClarification, fill_color |-> Yellow]
    ELSE [inference |-> Conflict, fill_color |-> Red]

(* the threshold branches *)
Inference(score) ==
    IF score > MatchThreshold
    THEN [inference |-> Match, fill_color |-> Green]
    ELSE IF ClarifyThreshold < score /\ score <= MatchThreshold
    THEN [inference |-> NeedsClarification, fill_color |-> Yellow]
    ELSE [inference |-> Conflict, fill_color |-> Red]

HighlightRowsFirst(colors, name) == colors[1]

(* highlight_rows(row): fill_colors[row.name], a label lookup on a Series  *)
(* with the default 0-based index                                          *)
HighlightRows(colors, name) == colors[name + 1]

NotShown == [shown |-> FALSE, rows |-> <<>>]
NoReport == [emitted |-> FALSE, sheet1 |-> <<>>, sheet2 |-> <<>>]

Idle == pc \in {"waiting", "done", "fault"}

RunVars == <<fault, skv_clauses, tender_brief, skv_embeddings, tender_embeddings,
             cosine_scores, results, matched_tender_indices,
             comparison_df, fill_colors, extra_rows,
             screen_comparison, screen_extra, report>>

(* a rerun starts the script from the top with fresh variables and a       *)
(* cleared page                                                            *)
FreshRun ==
    /\ fault' = "none"
    /\ skv_clauses' = <<>>
    /\ tender_brief' = <<>>
    /\ skv_embeddings' = <<>>
    /\ tender_embeddings' = <<>>
    /\ cosine_scores' = <<>>
    /\ results' = <<>>
    /\ matched_tender_indices' = {}
    /\ comparison_df' = <<>>
    /\ fill_colors' = <<>>
    /\ extra_rows' = <<>>
    /\ screen_comparison' = NotShown
    /\ screen_extra' = NotShown
    /\ report' = NoReport

Init ==
    /\ skv_file = NoFile
    /\ tender_file = NoFile
    /\ pc = "rerun"
    /\ fault = "none"
    /\ skv_clauses = <<>>
    /\ tender_brief = <<>>
    /\ skv_embeddings = <<>>
    /\ tender_embeddings = <<>>
    /\ cosine_scores = <<>>
    /\ results = <<>>
    /\ matched_tender_indices = {}
    /\ comparison_df = <<>>
    /\ fill_colors = <<>>
    /\ extra_rows = <<>>
    /\ screen_comparison = NotShown
    /\ screen_extra = NotShown
    /\ report = NoReport

(* ---------------- the uploaders ---------------- *)

UploadSkv ==
    /\ Idle
    /\ \E t \in Tables(MaxStdRows) : skv_file' = File(t)
    /\ pc' = "rerun"
    /\ FreshRun
    /\ UNCHANGED tender_file

UploadTender ==
    /\ Idle
    /\ \E t \in Tables(MaxTenderRows) : tender_file' = File(t)
    /\ pc' = "rerun"
    /\ FreshRun
    /\ UNCHANGED skv_file

RemoveSkv ==
    /\ Idle
    /\ skv_file.present
    /\ skv_file' = NoFile
    /\ pc' = "rerun"
    /\ FreshRun
    /\ UNCHANGED tender_file

RemoveTender ==
    /\ Idle
    /\ tender_file.present
    /\ tender_file' = NoFile
    /\ pc' = "rerun"
    /\ FreshRun
    /\ UNCHANGED skv_file

(* ---------------- one script run ---------------- *)

BothPresentOr == skv_file.present \/ tender_file.present

(* if skv_file and tender_file *)
BothPresent == skv_file.present /\ tender_file.present

Gate ==
    /\ pc = "rerun"
    /\ pc' = IF BothPresent THEN "extract" ELSE "waiting"
    /\ UNCHANGED <<skv_file, tender_file>>
    /\ UNCHANGED RunVars

Extract ==
    /\ pc = "extract"
    /\ skv_clauses' = ExtractSkv(skv_file.rows)
    /\ tender_brief' = ExtractTender(tender_file.rows)
    /\ pc' = "encode_skv"
    /\ UNCHANGED <<skv_file, tender_file, fault, skv_embeddings, tender_embeddings,
                   cosine_scores, results, matched_tender_indices,
                   comparison_df, fill_colors, extra_rows,
                   screen_comparison, screen_extra, report>>

EncodeSkv ==
    /\ pc = "encode_skv"
    /\ skv_embeddings' = Encode(skv_clauses)
    /\ pc' = "encode_tender"
    /\ UNCHANGED <<skv_file, tender_file, fault, skv_clauses, tender_brief,
                   tender_embeddings, cosine_scores, results, matched_tender_indices,
                   comparison_df, fill_colors, extra_rows,
                   screen_comparison, screen_extra, report>>

EncodeTender ==
    /\ pc = "encode_tender"
    /\ tender_embeddings' = Encode(tender_brief)
    /\ pc' = "match"
    /\ UNCHANGED <<skv_file, tender_file, fault, skv_clauses, tender_brief,
                   skv_embeddings, cosine_scores, results, matched_tender_indices,
                   comparison_df, fill_colors, extra_rows,
                   screen_comparison, screen_extra, report>>

EncodeFailsCaught ==
    /\ pc \in {"encode_skv", "encode_tender"}
    /\ fault' = "EmbeddingFailure"
    /\ pc' = "render"
    /\ UNCHANGED <<skv_file, tender_file, skv_clauses, tender_brief,
                   skv_embeddings, tender_embeddings,
                   cosine_scores, results, matched_tender_indices,
                   comparison_df, fill_colors, extra_rows,
                   screen_comparison, screen_extra, report>>

(* model.encode raises: the exception leaves the script *)
EncodeFails ==
    /\ pc \in {"encode_skv", "encode_tender"}
    /\ fault' = "EmbeddingFailure"
    /\ pc' = "fault"
    /\ UNCHANGED <<skv_file, tender_file, skv_clauses, tender_brief,
                   skv_embeddings, tender_embeddings,
                   cosine_scores, results, matched_tender_indices,
                   comparison_df, fill_colors, extra_rows,
                   screen_comparison, screen_extra, report>>

(* One iteration of the matching loop.  The iteration number is             *)
(* Len(results) + 1; i is the row LABEL iterrows() yields, and it is used  *)
(* as a POSITION into skv_embeddings.  row is what util.cos_sim returns    *)
(* for the vector passed to it.  best_match_idx, score, clause, vec (the   *)
(* row whose vector was passed to cos_sim) and tender (the label of        *)
(* tender_brief.iloc[best_match_idx]) are the loop's locals, kept with the *)
(* appended result.                                                        *)
MatchIter(row) ==
    /\ pc = "match"
    /\ Len(results) < Len(skv_clauses)
    /\ LET i == skv_clauses[Len(results) + 1]
       IN  /\ i < Len(skv_embeddings)
           /\ Len(tender_embeddings) >= 1
           /\ LET best_match_idx == ArgMax(row)
                  score == row[best_match_idx + 1]
                  inf == Inference(score)
              IN  /\ cosine_scores' = row
                  /\ matched_tender_indices' = matched_tender_indices \cup {best_match_idx}
                  /\ results' = Append(results,
                         [clause |-> i,
                          vec |-> skv_embeddings[i + 1].text,
                          best_match_idx |-> best_match_idx,
                          score |-> score,
                          tender |-> tender_brief[best_match_idx + 1],
                          inference |-> inf.inference,
                          fill_color |-> inf.fill_color])
    /\ pc' = "match"
    /\ UNCHANGED <<skv_file, tender_file, fault, skv_clauses, tender_brief,
                   skv_embeddings, tender_embeddings,
                   comparison_df, fill_colors, extra_rows,
                   screen_comparison, screen_extra, report>>

MatchStep == \E row \in [1..Len(tender_embeddings) -> Scores] : MatchIter(row)

MatchStepWide == \E row \in [1..Len(tender_embeddings) -> AllScores] : MatchIter(row)

(* skv_embeddings[i] with a label i that is no position of the tensor *)
MatchIndexError ==
    /\ pc = "match"
    /\ Len(results) < Len(skv_clauses)
    /\ skv_clauses[Len(results) + 1] >= Len(skv_embeddings)
    /\ fault' = "IndexError"
    /\ pc' = "fault"
    /\ UNCHANGED <<skv_file, tender_file, skv_clauses, tender_brief,
                   skv_embeddings, tender_embeddings,
                   cosine_scores, results, matched_tender_indices,
                   comparison_df, fill_colors, extra_rows,
                   screen_comparison, screen_extra, report>>

(* no tender row survived: cos_sim / argmax / iloc[0] on an empty operand  *)
(* raises                                                                  *)
MatchEmptyTender ==
    /\ pc = "match"
    /\ Len(results) < Len(skv_clauses)
    /\ skv_clauses[Len(results) + 1] < Len(skv_embeddings)
    /\ Len(tender_embeddings) = 0
    /\ fault' = "EmptyTender"
    /\ pc' = "fault"
    /\ UNCHANGED <<skv_file, tender_file, skv_clauses, tender_brief,
                   skv_embeddings, tender_embeddings,
                   cosine_scores, results, matched_tender_indices,
                   comparison_df, fill_colors, extra_rows,
                   screen_comparison, screen_extra, report>>

(* comparison_df = pd.DataFrame(results); fill_colors = pop("Fill Color") *)
Frame ==
    /\ pc = "match"
    /\ Len(results) = Len(skv_clauses)
    /\ Len(results) >= 1
    /\ comparison_df' = [k \in 1..Len(results) |->
                            [skv |-> results[k].clause,
                             tender |-> results[k].tender,
                             inference |-> results[k].inference]]
    /\ fill_colors' = [k \in 1..Len(results) |-> results[k].fill_color]
    /\ pc' = "residual"
    /\ UNCHANGED <<skv_file, tender_file, fault, skv_clauses, tender_brief,
                   skv_embeddings, tender_embeddings,
                   cosine_scores, results, matched_tender_indices, extra_rows,
                   screen_comparison, screen_extra, report>>

(* pd.DataFrame([]) has no "Fill Color" column: pop raises KeyError *)
FrameKeyError ==
    /\ pc = "match"
    /\ Len(results) = Len(skv_clauses)
    /\ Len(results) = 0
    /\ fault' = "KeyError"
    /\ pc' = "fault"
    /\ UNCHANGED <<skv_file, tender_file, skv_clauses, tender_brief,
                   skv_embeddings, tender_embeddings,
                   cosine_scores, results, matched_tender_indices,
                   comparison_df, fill_colors, extra_rows,
                   screen_comparison, screen_extra, report>>

ExtraRowsByPosition(brief, matched) ==
    LET keep == {p \in 1..Len(brief) : (p - 1) \notin matched}
        F[p \in 0..Len(brief)] ==
            IF p = 0 THEN <<>>
            ELSE IF p \in keep THEN Append(F[p - 1], brief[p]) ELSE F[p - 1]
    IN  F[Len(brief)]

(* the residual loop: iterrows() yields row LABELS, which are tested       *)
(* against the POSITIONS held in matched_tender_indices                    *)
ExtraRows(brief, matched) == SelectSeq(brief, LAMBDA l : l \notin matched)

Residual ==
    /\ pc = "residual"
    /\ extra_rows' = ExtraRows(tender_brief, matched_tender_indices)
    /\ pc' = "render"
    /\ UNCHANGED <<skv_file, tender_file, fault, skv_clauses, tender_brief,
                   skv_embeddings, tender_embeddings,
                   cosine_scores, results, matched_tender_indices,
                   comparison_df, fill_colors,
                   screen_comparison, screen_extra, report>>

(* the two st.dataframe calls *)
Render ==
    /\ pc = "render"
    /\ screen_comparison' =
           [shown |-> TRUE,
            rows |-> [k \in 1..Len(comparison_df) |->
                         [row |-> comparison_df[k],
                          color |-> HighlightRows(fill_colors, k - 1)]]]
    /\ screen_extra' =
           [shown |-> TRUE,
            rows |-> [k \in 1..Len(extra_rows) |->
                         [tender |-> extra_rows[k], color |-> ScreenYellow]]]
    /\ pc' = "export"
    /\ UNCHANGED <<skv_file, tender_file, fault, skv_clauses, tender_brief,
                   skv_embeddings, tender_embeddings,
                   cosine_scores, results, matched_tender_indices,
                   comparison_df, fill_colors, extra_rows, report>>

(* the workbook and the download button *)
Export ==
    /\ pc = "export"
    /\ report' =
           [emitted |-> TRUE,
            sheet1 |-> [k \in 1..Len(comparison_df) |->
                           [row |-> comparison_df[k], color |-> fill_colors[k]]],
            sheet2 |-> [k \in 1..Len(extra_rows) |->
                           [tender |-> extra_rows[k], color |-> Yellow]]]
    /\ pc' = "done"
    /\ UNCHANGED <<skv_file, tender_file, fault, skv_clauses, tender_brief,
                   skv_embeddings, tender_embeddings,
                   cosine_scores, results, matched_tender_indices,
                   comparison_df, fill_colors, extra_rows,
                   screen_comparison, screen_extra>>

Next ==
    \/ UploadSkv
    \/ UploadTender
    \/ RemoveSkv
    \/ RemoveTender
    \/ Gate
    \/ Extract
    \/ EncodeSkv
    \/ EncodeTender
    \/ EncodeFails
    \/ MatchStep
    \/ MatchIndexError
    \/ MatchEmptyTender
    \/ Frame
    \/ FrameKeyError
    \/ Residual
    \/ Render
    \/ Export

Spec == Init /\ [][Next]_vars

(* The matching loop alone, entered with one retained clause and one       *)
(* retained tender row, over the whole score range.                        *)
InitScores ==
    /\ skv_file = File(<<TRUE>>)
    /\ tender_file = File(<<TRUE, TRUE>>)
    /\ pc = "match"
    /\ fault = "none"
    /\ skv_clauses = ExtractSkv(skv_file.rows)
    /\ tender_brief = ExtractTender(tender_file.rows)
    /\ skv_embeddings = Encode(skv_clauses)
    /\ tender_embeddings = Encode(tender_brief)
    /\ cosine_scores = <<>>
    /\ results = <<>>
    /\ matched_tender_indices = {}
    /\ comparison_df = <<>>
    /\ fill_colors = <<>>
    /\ extra_rows = <<>>
    /\ screen_comparison = NotShown
    /\ screen_extra = NotShown
    /\ report = NoReport

NextScores == MatchStepWide

SpecScores == InitScores /\ [][NextScores]_vars

(* ======================= properties ======================= *)

AfterResidual == pc \in {"render", "export", "done"}
AfterMatching == pc \in {"residual", "render", "export", "done"}
Terminated == pc \in {"done", "fault"}

(* the 0-based positions chosen as best match by some MatchResult *)
BestPositions == {results[k].best_match_idx : k \in 1..Len(results)}

(* the colour a hex tag stands for (the source's own colour comments) *)
ColourName(hex) ==
    IF hex = Green THEN "green"
    ELSE IF hex \in {Yellow, ScreenYellow} THEN "yellow"
    ELSE IF hex = Red THEN "red"
    ELSE "other"

ColourOf(inference) ==
    IF inference = Match THEN "green"
    ELSE IF inference = NeedsClarification THEN "yellow"
    ELSE "red"

(* C1: once the residual list is built, every tender item is the best      *)
(* match of some MatchResult or is listed among the residual rows.         *)
C1_ResidualCompleteness ==
    AfterResidual =>
        \A p \in 1..Len(tender_brief) :
            \/ (p - 1) \in BestPositions
            \/ \E r \in 1..Len(extra_rows) : extra_rows[r] = tender_brief[p]

(* C2: the residual list is exactly the tender items never chosen as best  *)
(* match, in tender-list order; a chosen item is never residual.           *)
C2_ResidualExclusion ==
    AfterResidual => extra_rows = ExtraRowsByPosition(tender_brief, BestPositions)

(* C3: a run that ends without an embedding failure has produced one       *)
(* MatchResult per retained clause, in clause order, for any M >= 0.       *)
C3_Totality ==
    (Terminated /\ fault # "EmbeddingFailure") =>
        /\ Len(results) = Len(skv_clauses)
        /\ \A k \in 1..Len(results) : results[k].clause = skv_clauses[k]

(* C4: with an empty filtered tender list the run raises nothing, every    *)
(* clause is classified Conflict and the residual list is empty.           *)
C4_EmptyTenderSet ==
    (Terminated /\ fault # "EmbeddingFailure" /\ Len(tender_brief) = 0) =>
        /\ fault = "none"
        /\ Len(results) = Len(skv_clauses)
        /\ \A k \in 1..Len(results) : results[k].inference = Conflict
        /\ extra_rows = <<>>

(* C5: the classification of a best-match score s is Match iff s > 0.85,   *)
(* NeedsClarification iff 0.60 < s <= 0.85 and Conflict iff s <= 0.60.     *)
C5_ThresholdClassification ==
    \A k \in 1..Len(results) :
        LET s == results[k].score
            c == results[k].inference
        IN  /\ c \in {Match, NeedsClarification, Conflict}
            /\ (c = Match) <=> (s > 85)
            /\ (c = NeedsClarification) <=> (60 < s /\ s <= 85)
            /\ (c = Conflict) <=> (s <= 60)

W_C5 ==
    /\ Len(results) = 1
    /\ results[1].score = 85
    /\ results[1].inference = NeedsClarification

(* C6: the tender position an iteration chooses is the smallest position   *)
(* holding the maximum of the similarity row, the recorded score is that   *)
(* maximum, and in a run whose matching loop completed every row was the   *)
(* clause's own.                                                           *)
C6_BestMatchSelection ==
    /\ results # <<>> =>
          LET r == results[Len(results)]
              j == r.best_match_idx + 1
          IN  /\ j \in 1..Len(cosine_scores)
              /\ \A m \in 1..Len(cosine_scores) : cosine_scores[m] <= cosine_scores[j]
              /\ \A m \in 1..(j - 1) : cosine_scores[m] < cosine_scores[j]
              /\ r.score = cosine_scores[j]
              /\ r.tender = tender_brief[j]
    /\ AfterMatching =>
          \A k \in 1..Len(results) :
              /\ results[k].vec = skv_clauses[k]
              /\ results[k].clause = skv_clauses[k]

W_C6 ==
    /\ pc = "done"
    /\ Len(results) >= 2
    /\ Len(cosine_scores) >= 2
    /\ cosine_scores[1] = cosine_scores[2]
    /\ results[1].best_match_idx = 0
    /\ results[2].best_match_idx = 0

(* C7: while a file is absent the script only reaches its waiting state:   *)
(* nothing is extracted, encoded, matched, rendered or exported, and no    *)
(* error is raised.                                                        *)
C7_InputGating ==
    ~(skv_file.present /\ tender_file.present) =>
        /\ pc \in {"rerun", "waiting"}
        /\ fault = "none"
        /\ skv_clauses = <<>> /\ tender_brief = <<>>
        /\ skv_embeddings = <<>> /\ tender_embeddings = <<>>
        /\ results = <<>> /\ matched_tender_indices = {}
        /\ comparison_df = <<>> /\ extra_rows = <<>>
        /\ ~screen_comparison.shown /\ ~screen_extra.shown /\ ~report.emitted

W_C7 ==
    /\ pc = "waiting"
    /\ skv_file.present
    /\ Len(skv_file.rows) >= 1
    /\ ~tender_file.present

(* C8: a run in which an embedding call failed is aborted, and shows no    *)
(* comparison table, no extra-fields table and no report.                  *)
C8_EmbeddingFailureFatal ==
    fault = "EmbeddingFailure" =>
        /\ pc = "fault"
        /\ results = <<>>
        /\ ~screen_comparison.shown
        /\ ~screen_extra.shown
        /\ ~report.emitted

W_C8 ==
    /\ fault = "EmbeddingFailure"
    /\ pc = "fault"
    /\ Len(skv_embeddings) >= 1
    /\ tender_embeddings = <<>>
    /\ Len(tender_brief) >= 1

(* C9: a MatchResult's colour is the colour of its classification, the     *)
(* k-th row of the on-screen table and of sheet 1 carries the colour of    *)
(* the k-th MatchResult, and every residual row is tagged yellow.          *)
C9_ColourTag ==
    /\ \A k \in 1..Len(results) :
           ColourName(results[k].fill_color) = ColourOf(results[k].inference)
    /\ screen_comparison.shown =>
           /\ Len(screen_comparison.rows) = Len(results)
           /\ \A k \in 1..Len(results) :
                  /\ screen_comparison.rows[k].row.skv = results[k].clause
                  /\ screen_comparison.rows[k].row.inference = results[k].inference
                  /\ ColourName(screen_comparison.rows[k].color)
                         = ColourOf(results[k].inference)
    /\ report.emitted =>
           /\ Len(report.sheet1) = Len(results)
           /\ \A k \in 1..Len(results) :
                  /\ report.sheet1[k].row.skv = results[k].clause
                  /\ report.sheet1[k].row.inference = results[k].inference
                  /\ ColourName(report.sheet1[k].color) = ColourOf(results[k].inference)
    /\ \A r \in 1..Len(screen_extra.rows) :
           ColourName(screen_extra.rows[r].color) = "yellow"
    /\ \A r \in 1..Len(report.sheet2) :
           ColourName(report.sheet2[r].color) = "yellow"

W_C9 ==
    /\ pc = "done"
    /\ report.emitted
    /\ Len(results) >= 2
    /\ results[1].inference = Conflict
    /\ results[2].inference = Match
    /\ Len(report.sheet2) >= 1

(* C10: every retained clause is matched with the similarity row of its    *)
(* own embedding (the k-th retained clause with the k-th vector), and the  *)
(* embedding list is never read out of range.                              *)
C10_IndexAlignment ==
    /\ fault # "IndexError"
    /\ \A k \in 1..Len(results) :
           /\ results[k].clause = skv_clauses[k]
           /\ results[k].vec = skv_clauses[k]

====
